---- MODULE Spec2Model ----
(***************************************************************************)
(* Reference-counted shared pointers of zgrigoryan/shared_pointer.         *)
(*                                                                         *)
(* Three implementations are modelled, selected by the variable impl:      *)
(*   "scalar"  SharedPtr<T>    of src/SharedPtr.h (lines 26-71)            *)
(*   "array"   SharedPtr<T[]>  of src/SharedPtr.h (lines 75-111)           *)
(*   "main"    SharedPtr<T>    of src/main.cpp    (lines 55-122)           *)
(*                                                                         *)
(* Addresses are integers: NULL is the null pointer, 1..NumRes are the raw *)
(* resources, 1..MaxBlocks the control blocks, WILD any other bit pattern. *)
(* Counts are size_t values, written by their representative of least      *)
(* magnitude modulo 2^64 (so -1 stands for SIZE_MAX); the model only       *)
(* compares them with 0 and 1 and adds or subtracts 1.                     *)
(***************************************************************************)
EXTENDS Integers, Sequences, FiniteSets, TLC

\* ---------------------------------------------------------------- bounds
NumHandles == 2      \* handle objects the caller has room for
NumRes == 2          \* raw resources the caller ever allocates
MaxBlocks == 2       \* control blocks ever allocated
MaxFaults == 1       \* faults in one behaviour: operator new throwing, or an
                     \* uninitialised field coming out non-null
MaxTally == 2        \* strategy invocations remembered per resource
NumThreads == 2      \* threads copying and dropping the shared handle
MaxRounds == 2       \* copy-then-drop rounds per thread

NULL == 0
WILD == NULL - 1

Handles == 1..NumHandles
Res == 1..NumRes
BlockIds == 1..MaxBlocks
Threads == 1..NumThreads
Impls == {"scalar", "array", "main"}
Deleters == {"default_delete", "custom"}

VARIABLES
    impl,       \* which class template the behaviour instantiates
    alive,      \* alive[h]: handle object h is constructed and not destroyed
    cb,         \* cb[h]: the handle's cb_ field
    ptr,        \* ptr[h]: the handle's ptr_ field (main.cpp only, else NULL)
    nblocks,    \* control blocks allocated so far (ids 1..nblocks)
    bptr,       \* bptr[b]: the raw address block b was created for
    bdel,       \* bdel[b]: the deleter stored in block b
    cnt,        \* cnt[b]: ref_cnt / count of block b (kept after the free)
    freed,      \* freed[b]: the block's memory has been deleted
    invoked,    \* invoked[r]: times a destruction strategy was called on r
    ran,        \* ran[b]: the strategy call made when block b was destroyed
    handed,     \* raw resources already handed to a constructor or reset
    faults,     \* times operator new threw or a field came out non-null
    last,       \* the last operation performed and how it ended
    tpc,        \* tpc[t]: where thread t is in its copy-then-drop loop
    tleft,      \* tleft[t]: copy-then-drop rounds thread t has still to do
    tcb,        \* tcb[t]: cb_ of thread t's private handle
    tptr,       \* tptr[t]: ptr_ of thread t's private handle (main.cpp)
    treg,       \* treg[t]: the count thread t read for a plain ++ or --
    hb,         \* happens-before bookkeeping of the atomic decrements
    asg         \* the assignment in progress, statement by statement

vars == <<impl, alive, cb, ptr, nblocks, bptr, bdel, cnt, freed, invoked, ran,
          handed, faults, last, tpc, tleft, tcb, tptr, treg, hb, asg>>
tvars == <<tpc, tleft, tcb, tptr>>
xvars == <<treg, hb, asg>>

\* ------------------------------------------------------------------ heap
\* The part of the state the private helpers work on.
Heap == [nblocks |-> nblocks, bptr |-> bptr, bdel |-> bdel, cnt |-> cnt,
         freed |-> freed, invoked |-> invoked, ran |-> ran, faults |-> faults,
         crashed |-> FALSE, thrown |-> FALSE, new |-> NULL]

Crash(hp) == [hp EXCEPT !.crashed = TRUE]
Stopped(hp) == hp.crashed \/ hp.thrown

\* The call del(p) made while block c is destroyed: self is the block the
\* strategy was read from, del the strategy that ran.  Calls on a resource
\* are counted up to MaxTally.
NotRun == [self |-> NULL, del |-> "none"]
Invoke(hp, c, p, self, del) ==
    LET h1 == [hp EXCEPT !.ran[c] = [self |-> self, del |-> del]]
    IN  IF p \in Res
        THEN [h1 EXCEPT !.invoked[p] = IF @ < MaxTally THEN @ + 1 ELSE @]
        ELSE h1

\* new detail::ControlBlock<T*>(p) / new ControlBlockImpl<T, Deleter>(ptr, d):
\* a block with count 1, or std::bad_alloc.
NewBlock(hp, p, d) ==
    IF Stopped(hp) THEN {hp}
    ELSE (IF hp.nblocks < MaxBlocks
          THEN {[hp EXCEPT !.nblocks = @ + 1,
                           !.bptr[hp.nblocks + 1] = p,
                           !.bdel[hp.nblocks + 1] = d,
                           !.cnt[hp.nblocks + 1] = 1,
                           !.new = hp.nblocks + 1]}
          ELSE {})
         \cup
         (IF hp.faults < MaxFaults
          THEN {[hp EXCEPT !.faults = @ + 1, !.thrown = TRUE]}
          ELSE {})

\* ------------------------------------------- SharedPtr.h private helpers
\* Both variants passing delete_object to dec.
Strategy_scalar_only == "delete_object"

\* The strategy a handle of this variant passes to dec.
\* delete_object for SharedPtr<T>, delete_array for SharedPtr<T[]>.
Strategy == IF impl = "array" THEN "delete_array" ELSE "delete_object"

\* A copy that shares the block without counting itself.
inc_skipped(hp, c) == {hp}

\* void inc(): if(cb_) ++cb_->ref_cnt.  Through a freed block or a wild
\* address the write is undefined: the process stops or the memory is written.
inc(hp, c) ==
    IF Stopped(hp) \/ c = NULL THEN {hp}
    ELSE IF c = WILD THEN {Crash(hp), hp}
    ELSE LET h1 == [hp EXCEPT !.cnt[c] = @ + 1]
         IN  IF hp.freed[c] THEN {Crash(hp), h1} ELSE {h1}

\* The body dec runs when the count reached zero: del(cb_->ptr); delete cb_;
dec_zero(hp, c, del) ==
    [Invoke(hp, c, hp.bptr[c], c, del) EXCEPT !.freed[c] = TRUE]

\* void dec(D del): if(!cb_) return; if(--cb_->ref_cnt==0){ del(cb_->ptr); delete cb_; }
dec(hp, c, del) ==
    IF Stopped(hp) \/ c = NULL THEN {hp}
    ELSE IF c = WILD THEN {Crash(hp), hp}
    ELSE LET h1 == [hp EXCEPT !.cnt[c] = @ - 1]
             h2 == IF h1.cnt[c] = 0 THEN dec_zero(h1, c, del) ELSE h1
         IN  IF hp.freed[c] THEN {Crash(hp), h2} ELSE {h2}

\* ---------------------------------------------- main.cpp private helpers
\* void add_ref(): if (cb_) cb_->count.fetch_add(1, relaxed).
add_ref(hp, c) ==
    IF Stopped(hp) \/ c = NULL THEN {hp}
    ELSE IF c = WILD THEN {Crash(hp), hp}
    ELSE LET h1 == [hp EXCEPT !.cnt[c] = @ + 1]
         IN  IF hp.freed[c] THEN {Crash(hp), h1} ELSE {h1}

\* The block the destroy_fn lambda reads the deleter from:
\* static_cast<ControlBlockImpl*>(static_cast<ControlBlockBase*>(nullptr)).
DestroySelf(c) == NULL

\* Deleter del = self->deleter.  Through a null self the read is undefined:
\* the process stops, or del is whatever the build makes of it.
ReadDeleter(hp, self) ==
    IF self \in 1..hp.nblocks THEN {hp.bdel[self]} ELSE Deleters

\* destroy_fn(p): the lambda installed by ControlBlockImpl's constructor.
destroy_fn(hp, c, p) ==
    LET self == DestroySelf(c)
    IN  (IF self \in 1..hp.nblocks /\ p # WILD THEN {} ELSE {Crash(hp)})
        \cup
        {Invoke(hp, c, p, self, d) : d \in ReadDeleter(hp, self)}

\* void ControlBlockBase::destroy(void* ptr): destroy_fn(ptr); delete this.
destroy(hp, c, p) ==
    {IF h.crashed THEN h ELSE [h EXCEPT !.freed[c] = TRUE] : h \in destroy_fn(hp, c, p)}

\* release testing the value fetch_sub leaves behind instead of the one it
\* returns: if (cb_->count.fetch_sub(1) == 0), which no last owner sees.
release_tests_zero(hp, p, c) ==
    IF Stopped(hp) \/ c = NULL THEN {hp}
    ELSE IF c = WILD THEN {Crash(hp), hp}
    ELSE LET h1 == [hp EXCEPT !.cnt[c] = @ - 1]
             after == IF hp.cnt[c] = 0 THEN destroy(h1, c, p) ELSE {h1}
         IN  IF hp.freed[c] THEN {Crash(hp)} \cup after ELSE after

\* void release(): if (!cb_) return;
\* if (cb_->count.fetch_sub(1, acq_rel) == 1) cb_->destroy(ptr_); then both
\* fields are nulled (the caller of release drops the handle value).
release(hp, p, c) ==
    IF Stopped(hp) \/ c = NULL THEN {hp}
    ELSE IF c = WILD THEN {Crash(hp), hp}
    ELSE LET h1 == [hp EXCEPT !.cnt[c] = @ - 1]
             after == IF hp.cnt[c] = 1 THEN destroy(h1, c, p) ELSE {h1}
         IN  IF hp.freed[c] THEN {Crash(hp)} \cup after ELSE after

\* ------------------------------------------------ SharedPtr.h operations
\* An outcome of an operation on a handle: the heap and the handle's fields.
Out(hp, p, c) == [hp |-> hp, p |-> p, c |-> c]

\* T* get() const: cb_ ? cb_->ptr : nullptr (read through cb_ even when the
\* block is freed: the stale field is what the memory still holds).
get_cb(hp, c) == IF c \in 1..hp.nblocks THEN hp.bptr[c] ELSE c

\* explicit SharedPtr(T* p) : cb_(p ? new ControlBlock(p) : nullptr)
ctor(hp, p) ==
    IF p = NULL THEN {Out(hp, NULL, NULL)}
    ELSE {Out(h, NULL, h.new) : h \in NewBlock(hp, p, "none")}

\* assign without its this==&r test: the old block is released first even
\* when r is *this.
assign_unchecked(hp, c, rc, same) ==
    UNION {{Out(h2, NULL, rc) : h2 \in inc(h1, rc)} : h1 \in dec(hp, c, Strategy)}

\* void assign(const SharedPtr& r): if(this==&r) return; dec(); cb_=r.cb_; inc();
assign(hp, c, rc, same) ==
    IF same THEN {Out(hp, NULL, c)}
    ELSE UNION {{Out(h2, NULL, rc) : h2 \in inc(h1, rc)} : h1 \in dec(hp, c, Strategy)}

\* void move_assign(SharedPtr&& r): if(this==&r) return; dec(); cb_=r.cb_; r.cb_=nullptr;
move_assign(hp, c, rc, same) ==
    IF same THEN {Out(hp, NULL, c)}
    ELSE {Out(h1, NULL, rc) : h1 \in dec(hp, c, Strategy)}

\* void reset() noexcept { dec(); cb_=nullptr; }
reset(hp, c) == {Out(h1, NULL, NULL) : h1 \in dec(hp, c, Strategy)}

\* void reset(T* p) { if(get()!=p){ dec(); cb_=p?new ControlBlock(p):nullptr; }}
\* When new throws, cb_ keeps the value dec has just released.
reset_raw(hp, c, p) ==
    IF get_cb(hp, c) = p THEN {Out(hp, NULL, c)}
    ELSE UNION {IF p = NULL THEN {Out(h1, NULL, NULL)}
                ELSE {Out(h2, NULL, IF h2.thrown THEN c ELSE h2.new) :
                         h2 \in NewBlock(h1, p, "none")} :
                h1 \in dec(hp, c, Strategy)}

\* ---------------------------------------------------- main.cpp operations
\* The values a field left uninitialised can hold: any address.
Indeterminate(hp) ==
    {<<p, c>> \in ({NULL, WILD} \cup Res) \X ({NULL, WILD} \cup (1..hp.nblocks)) :
        hp.faults < MaxFaults \/ (p = NULL /\ c = NULL)}

\* explicit SharedPtr(T* ptr, Deleter d = Deleter()):
\*   if (ptr) { cb_ = new ControlBlockImpl(ptr, d); ptr_ = ptr; }
\* with no member initialiser: for a null ptr both fields stay uninitialised.
main_ctor(hp, p, d) ==
    IF p # NULL
    THEN {Out(h, IF h.thrown THEN NULL ELSE p, h.new) : h \in NewBlock(hp, p, d)}
    ELSE {Out(IF v = <<NULL, NULL>> THEN hp ELSE [hp EXCEPT !.faults = @ + 1],
              v[1], v[2]) : v \in Indeterminate(hp)}

\* SharedPtr& operator=(SharedPtr other) with other copy-constructed from rhs:
\* add_ref for the parameter, swap(other), then ~other releases the old fields.
main_copy_assign(hp, p, c, rp, rc) ==
    UNION {{Out(h2, rp, rc) : h2 \in release(h1, p, c)} : h1 \in add_ref(hp, rc)}

\* operator=(SharedPtr other) with other move-constructed from rhs: rhs is
\* nulled, swap(other), then ~other releases the old fields (those of *this
\* after rhs was nulled, so null ones when rhs is *this).
main_move_assign(hp, p, c, rp, rc, same) ==
    IF same THEN {Out(h1, rp, rc) : h1 \in release(hp, NULL, NULL)}
    ELSE {Out(h1, rp, rc) : h1 \in release(hp, p, c)}

\* void reset(T* ptr = nullptr) { SharedPtr(ptr).swap(*this); }
\* void reset(T* ptr, Deleter d) { SharedPtr(ptr, d).swap(*this); }
\* When the temporary's constructor throws, *this is untouched.
main_reset(hp, p, c, np, d) ==
    UNION {IF t.hp.thrown THEN {Out(t.hp, p, c)}
           ELSE {Out(h2, t.p, t.c) : h2 \in release(t.hp, p, c)} :
           t \in main_ctor(hp, np, d)}

\* ------------------------------------------------------------- the state
Done(name, res) == [op |-> name, res |-> res]

\* No thread has written the resource or dropped a reference yet:
\* wrote[t] counts thread t's writes to the resource, seen[t][u] the writes of
\* u that happen before t's next step, pub[u] the writes of u released into the
\* count, dview[u] the writes of u that happen before the strategy call.
NoOrder ==
    [wrote |-> [t \in Threads |-> 0],
     seen |-> [t \in Threads |-> [u \in Threads |-> 0]],
     pub |-> [u \in Threads |-> 0],
     dview |-> [u \in Threads |-> 0]]

\* No assignment is in progress.
NoAssign ==
    [pc |-> "idle", d |-> NULL, r |-> NULL, move |-> FALSE,
     optr |-> NULL, ocb |-> NULL, newp |-> NULL, newc |-> NULL,
     released |-> FALSE]

Init ==
    /\ impl \in Impls
    /\ alive = [h \in Handles |-> FALSE]
    /\ cb = [h \in Handles |-> NULL]
    /\ ptr = [h \in Handles |-> NULL]
    /\ nblocks = 0
    /\ bptr = [b \in BlockIds |-> NULL]
    /\ bdel = [b \in BlockIds |-> "none"]
    /\ cnt = [b \in BlockIds |-> 0]
    /\ freed = [b \in BlockIds |-> FALSE]
    /\ invoked = [r \in Res |-> 0]
    /\ ran = [b \in BlockIds |-> NotRun]
    /\ handed = {}
    /\ faults = 0
    /\ last = Done("none", "ok")
    /\ tpc = [t \in Threads |-> "idle"]
    /\ tleft = [t \in Threads |-> 0]
    /\ tcb = [t \in Threads |-> NULL]
    /\ tptr = [t \in Threads |-> NULL]
    /\ treg = [t \in Threads |-> 0]
    /\ hb = NoOrder
    /\ asg = NoAssign

\* The process is gone: an assertion aborted it, or undefined behaviour did.
Halted == last.res \in {"aborts", "crashes"}
\* The last operation ended by throwing.
Thrown == last.res = "throws"

\* A terminated process has no state to observe: the model keeps none.
Halt(name, res) ==
    /\ last' = Done(name, res)
    /\ alive' = [h \in Handles |-> FALSE]
    /\ cb' = [h \in Handles |-> NULL]
    /\ ptr' = [h \in Handles |-> NULL]
    /\ nblocks' = 0
    /\ bptr' = [b \in BlockIds |-> NULL]
    /\ bdel' = [b \in BlockIds |-> "none"]
    /\ cnt' = [b \in BlockIds |-> 0]
    /\ freed' = [b \in BlockIds |-> FALSE]
    /\ invoked' = [r \in Res |-> 0]
    /\ ran' = [b \in BlockIds |-> NotRun]
    /\ handed' = {}
    /\ faults' = 0
    /\ impl' = impl
    /\ UNCHANGED <<tvars, xvars>>

\* The end of an operation: the heap it leaves and the handle fields it set.
Finish(name, hp, alive2, cb2, ptr2, handed2) ==
    IF hp.crashed
    THEN Halt(name, "crashes")
    ELSE /\ last' = Done(name, IF hp.thrown THEN "throws" ELSE "ok")
         /\ alive' = alive2
         /\ cb' = cb2
         /\ ptr' = ptr2
         /\ handed' = handed2
         /\ nblocks' = hp.nblocks
         /\ bptr' = hp.bptr
         /\ bdel' = hp.bdel
         /\ cnt' = hp.cnt
         /\ freed' = hp.freed
         /\ invoked' = hp.invoked
         /\ ran' = hp.ran
         /\ faults' = hp.faults
         /\ impl' = impl
         /\ UNCHANGED <<tvars, xvars>>

IsMain == impl = "main"
Hand(p) == IF p \in Res THEN handed \cup {p} ELSE handed
\* The deleter arguments the implementation's constructors and reset accept.
DeleterArgs == IF IsMain THEN Deleters ELSE {"none"}
\* A new handle object takes the first free slot and a new raw resource the
\* first unused address: which slot or address it is makes no difference.
FreeSlot(h) == ~alive[h] /\ \A g \in Handles : g < h => alive[g]
FreshRes(p) == p \in Res \ handed /\ \A q \in Res \ handed : p <= q

\* ----------------------------------------------------------- observers
\* T* get(): SharedPtr.h reads it through the block, main.cpp returns ptr_.
get(h) == IF IsMain THEN ptr[h] ELSE get_cb(Heap, cb[h])
\* size_t use_count(): cb_ ? cb_->ref_cnt : 0 (stale through a freed block;
\* through a wild address the value is whatever that memory holds: WILD).
use_count(h) == IF cb[h] = NULL THEN 0 ELSE IF cb[h] = WILD THEN WILD ELSE cnt[cb[h]]
unique(h) == use_count(h) = 1
\* explicit operator bool(): get() != nullptr, resp. ptr_ != nullptr.
bool(h) == get(h) # NULL

\* ------------------------------------------------------------ operations
\* SharedPtr() / SharedPtr(nullptr_t): an empty handle.
DefaultConstruct(h) ==
    /\ ~Halted /\ FreeSlot(h)
    /\ Finish("construct_empty", Heap, [alive EXCEPT ![h] = TRUE],
              [cb EXCEPT ![h] = NULL], [ptr EXCEPT ![h] = NULL], handed)

\* SharedPtr(T* p) / SharedPtr(T* ptr, Deleter d).  A constructor that throws
\* leaves no object.
ConstructFromRaw(h, p, d) ==
    /\ ~Halted /\ FreeSlot(h)
    /\ p \in {NULL} \cup {q \in Res : FreshRes(q)}
    /\ d \in DeleterArgs
    /\ \E out \in (IF IsMain THEN main_ctor(Heap, p, d) ELSE ctor(Heap, p)) :
          Finish(IF p = NULL THEN "construct_null" ELSE "construct_raw", out.hp,
                 [alive EXCEPT ![h] = ~out.hp.thrown],
                 [cb EXCEPT ![h] = IF out.hp.thrown THEN NULL ELSE out.c],
                 [ptr EXCEPT ![h] = IF out.hp.thrown THEN NULL ELSE out.p],
                 Hand(p))

\* SharedPtr(const SharedPtr& o): the fields are copied, then inc() / add_ref().
CopyConstruct(h, o) ==
    /\ ~Halted /\ FreeSlot(h) /\ alive[o]
    /\ \E hp \in (IF IsMain THEN add_ref(Heap, cb[o]) ELSE inc(Heap, cb[o])) :
          Finish("copy_construct", hp, [alive EXCEPT ![h] = TRUE],
                 [cb EXCEPT ![h] = cb[o]], [ptr EXCEPT ![h] = ptr[o]], handed)

\* A move constructor that counts the new handle as a copy constructor does.
MoveConstruct_counts(h, o) ==
    /\ ~Halted /\ FreeSlot(h) /\ alive[o]
    /\ \E hp \in (IF IsMain THEN add_ref(Heap, cb[o]) ELSE inc(Heap, cb[o])) :
          Finish("move_construct", hp, [alive EXCEPT ![h] = TRUE],
                 [cb EXCEPT ![h] = cb[o], ![o] = NULL],
                 [ptr EXCEPT ![h] = ptr[o], ![o] = NULL], handed)

\* A move constructor that forgets o.cb_ = nullptr.
MoveConstruct_keeps_source(h, o) ==
    /\ ~Halted /\ FreeSlot(h) /\ alive[o]
    /\ Finish("move_construct", Heap, [alive EXCEPT ![h] = TRUE],
              [cb EXCEPT ![h] = cb[o]], [ptr EXCEPT ![h] = ptr[o]], handed)

\* SharedPtr(SharedPtr&& o): the fields are taken and o's are nulled.
MoveConstruct(h, o) ==
    /\ ~Halted /\ FreeSlot(h) /\ alive[o]
    /\ Finish("move_construct", Heap, [alive EXCEPT ![h] = TRUE],
              [cb EXCEPT ![h] = cb[o], ![o] = NULL],
              [ptr EXCEPT ![h] = ptr[o], ![o] = NULL], handed)

\* ~SharedPtr(): dec(strategy) / release().
Destroy(h) ==
    /\ ~Halted /\ alive[h]
    /\ \E hp \in (IF IsMain THEN release(Heap, ptr[h], cb[h])
                  ELSE dec(Heap, cb[h], Strategy)) :
          Finish("destroy", hp, [alive EXCEPT ![h] = FALSE],
                 [cb EXCEPT ![h] = NULL], [ptr EXCEPT ![h] = NULL], handed)

\* operator=(const SharedPtr& rhs); h and r may be the same handle.
CopyAssign(h, r) ==
    /\ ~Halted /\ alive[h] /\ alive[r]
    /\ \E out \in (IF IsMain
                   THEN main_copy_assign(Heap, ptr[h], cb[h], ptr[r], cb[r])
                   ELSE assign(Heap, cb[h], cb[r], h = r)) :
          Finish(IF h = r THEN "self_copy_assign" ELSE "copy_assign", out.hp, alive,
                 [cb EXCEPT ![h] = out.c], [ptr EXCEPT ![h] = out.p], handed)

\* operator=(SharedPtr&& rhs); h and r may be the same handle.
MoveAssign(h, r) ==
    /\ ~Halted /\ alive[h] /\ alive[r]
    /\ IF IsMain
       THEN \E out \in main_move_assign(Heap, ptr[h], cb[h], ptr[r], cb[r], h = r) :
              Finish(IF h = r THEN "self_move_assign" ELSE "move_assign", out.hp, alive,
                     [cb EXCEPT ![r] = NULL, ![h] = out.c],
                     [ptr EXCEPT ![r] = NULL, ![h] = out.p], handed)
       ELSE \E out \in move_assign(Heap, cb[h], cb[r], h = r) :
              Finish(IF h = r THEN "self_move_assign" ELSE "move_assign", out.hp, alive,
                     IF h = r THEN cb ELSE [cb EXCEPT ![r] = NULL, ![h] = out.c],
                     ptr, handed)

\* reset() with no argument (main.cpp: reset(nullptr) by the default argument).
Reset(h) ==
    /\ ~Halted /\ alive[h]
    /\ \E out \in (IF IsMain
                   THEN main_reset(Heap, ptr[h], cb[h], NULL, "default_delete")
                   ELSE reset(Heap, cb[h])) :
          Finish("reset", out.hp, alive, [cb EXCEPT ![h] = out.c],
                 [ptr EXCEPT ![h] = out.p], handed)

\* reset(T* p) / reset(T* ptr, Deleter d) / operator=(T* raw), with a raw
\* address no handle was given before, the handle's own address, or null.
ResetRaw(h, p, d) ==
    /\ ~Halted /\ alive[h]
    /\ p \in {NULL} \cup {q \in Res : FreshRes(q)} \cup ({get(h)} \cap Res)
    /\ d \in DeleterArgs
    /\ \E out \in (IF IsMain THEN main_reset(Heap, ptr[h], cb[h], p, d)
                   ELSE reset_raw(Heap, cb[h], p)) :
          Finish(IF p = NULL THEN "reset_null"
                 ELSE IF p = get(h) THEN "reset_own" ELSE "reset_raw",
                 out.hp, alive, [cb EXCEPT ![h] = out.c],
                 [ptr EXCEPT ![h] = out.p], Hand(p))

\* void swap(SharedPtr& o) and the free swap(a, b): std::swap of the fields.
Swap(h, o) ==
    /\ ~Halted /\ alive[h] /\ alive[o]
    /\ Finish(IF h = o THEN "self_swap" ELSE "swap", Heap, alive,
              [cb EXCEPT ![h] = cb[o], ![o] = cb[h]],
              [ptr EXCEPT ![h] = ptr[o], ![o] = ptr[h]], handed)

\* ---------------------------------------------------------------- access
\* How a call ends: "ok" it returns a usable result, "null" it returns a null
\* address, "throws" it throws, "aborts" an assertion stops the process,
\* "crashes" undefined behaviour stops it.
\* T& operator*() const.
\*   SharedPtr.h: assert(get()); return *get();  the assertion is compiled out
\*   under NDEBUG, and *get() on a null address is then undefined.
\*   main.cpp:    if (!ptr_) throw std::runtime_error("Null ptr"); return *ptr_;
deref(h) ==
    IF IsMain THEN (IF ptr[h] = NULL THEN {"throws"} ELSE {"ok"})
    ELSE IF get(h) # NULL THEN {"ok"} ELSE {"aborts", "crashes", "ok"}

\* T* operator->() const.
\*   SharedPtr.h: noexcept { return get(); }
\*   main.cpp:    if (!ptr_) throw std::runtime_error("Null ptr"); return ptr_;
arrow(h) ==
    IF IsMain THEN (IF ptr[h] = NULL THEN {"throws"} ELSE {"ok"})
    ELSE IF get(h) # NULL THEN {"ok"} ELSE {"null"}

\* T& operator[](size_t i) const of SharedPtr<T[]>: assert(get()); return get()[i];
index(h) == IF get(h) # NULL THEN {"ok"} ELSE {"aborts", "crashes", "ok"}

\* A call of an accessor: it changes no field.
Access(name, res) ==
    IF res \in {"aborts", "crashes"}
    THEN Halt(name, res)
    ELSE /\ last' = Done(name, res)
         /\ UNCHANGED <<impl, alive, cb, ptr, nblocks, bptr, bdel, cnt, freed,
                        invoked, ran, handed, faults, tvars, xvars>>

Deref(h) ==
    /\ ~Halted /\ alive[h] /\ impl # "array"
    /\ \E res \in deref(h) : Access("deref", res)

Arrow(h) ==
    /\ ~Halted /\ alive[h] /\ impl # "array"
    /\ \E res \in arrow(h) : Access("arrow", res)

Index(h) ==
    /\ ~Halted /\ alive[h] /\ impl = "array"
    /\ \E res \in index(h) : Access("index", res)

Next ==
    \/ \E h \in Handles : DefaultConstruct(h)
    \/ \E h \in Handles, p \in {NULL} \cup Res, d \in Deleters \cup {"none"} :
          ConstructFromRaw(h, p, d)
    \/ \E h, o \in Handles : CopyConstruct(h, o)
    \/ \E h, o \in Handles : MoveConstruct(h, o)
    \/ \E h \in Handles : Destroy(h)
    \/ \E h, r \in Handles : CopyAssign(h, r)
    \/ \E h, r \in Handles : MoveAssign(h, r)
    \/ \E h \in Handles : Reset(h)
    \/ \E h \in Handles, p \in {NULL} \cup Res, d \in Deleters \cup {"none"} :
          ResetRaw(h, p, d)
    \/ \E h, o \in Handles : Swap(h, o)
    \/ \E h \in Handles : Deref(h)
    \/ \E h \in Handles : Arrow(h)
    \/ \E h \in Handles : Index(h)

Spec == Init /\ [][Next]_vars

\* ------------------------------------------------- the atomic policy
\* SharedPtr.h built with SHPTR_THREADSAFE (ref_count_t = std::atomic<size_t>)
\* and main.cpp (std::atomic<size_t> count): handles 1..c share block 1, and
\* each thread copies handle 1 into a private handle and destroys that copy,
\* MaxRounds times.  Each atomic read-modify-write is one step.
InitAtomic ==
    /\ impl \in Impls
    /\ \E c \in Handles :
          /\ alive = [h \in Handles |-> h <= c]
          /\ cb = [h \in Handles |-> IF h <= c THEN 1 ELSE NULL]
          /\ ptr = [h \in Handles |-> IF h <= c /\ IsMain THEN 1 ELSE NULL]
          /\ cnt = [b \in BlockIds |-> IF b = 1 THEN c ELSE 0]
    /\ nblocks = 1
    /\ bptr = [b \in BlockIds |-> IF b = 1 THEN 1 ELSE NULL]
    /\ \E d \in DeleterArgs : bdel = [b \in BlockIds |-> IF b = 1 THEN d ELSE "none"]
    /\ freed = [b \in BlockIds |-> FALSE]
    /\ invoked = [r \in Res |-> 0]
    /\ ran = [b \in BlockIds |-> NotRun]
    /\ handed = {1}
    /\ faults = 0
    /\ last = Done("none", "ok")
    /\ tpc = [t \in Threads |-> "idle"]
    /\ tleft = [t \in Threads |-> MaxRounds]
    /\ tcb = [t \in Threads |-> NULL]
    /\ tptr = [t \in Threads |-> NULL]
    /\ treg = [t \in Threads |-> 0]
    /\ hb = NoOrder
    /\ asg = NoAssign

\* The end of a thread's step.
TFinish(hp, tpc2, tleft2, tcb2, tptr2) ==
    IF hp.crashed
    THEN Halt("thread", "crashes")
    ELSE /\ cnt' = hp.cnt
         /\ freed' = hp.freed
         /\ invoked' = hp.invoked
         /\ ran' = hp.ran
         /\ tpc' = tpc2
         /\ tleft' = tleft2
         /\ tcb' = tcb2
         /\ tptr' = tptr2
         /\ UNCHANGED <<impl, alive, cb, ptr, nblocks, bptr, bdel, handed, faults,
                        last, xvars>>

\* Copy constructor, member initialisers: cb_(o.cb_) (and ptr_(other.ptr_)).
TCopy(t) ==
    /\ ~Halted /\ tpc[t] = "idle" /\ tleft[t] > 0 /\ alive[1]
    /\ TFinish(Heap, [tpc EXCEPT ![t] = "copied"], tleft,
               [tcb EXCEPT ![t] = cb[1]], [tptr EXCEPT ![t] = ptr[1]])

\* Copy constructor, body: inc() / add_ref(), one atomic increment.
TInc(t) ==
    /\ ~Halted /\ tpc[t] = "copied"
    /\ \E hp \in (IF IsMain THEN add_ref(Heap, tcb[t]) ELSE inc(Heap, tcb[t])) :
          TFinish(hp, [tpc EXCEPT ![t] = "holding"], tleft, tcb, tptr)

\* Destructor of the private copy: dec(strategy) / release(), one atomic
\* decrement, and the destruction when that decrement reached zero.
TDrop(t) ==
    /\ ~Halted /\ tpc[t] = "holding"
    /\ \E hp \in (IF IsMain THEN release(Heap, tptr[t], tcb[t])
                  ELSE dec(Heap, tcb[t], Strategy)) :
          TFinish(hp, [tpc EXCEPT ![t] = "idle"], [tleft EXCEPT ![t] = @ - 1],
                  [tcb EXCEPT ![t] = NULL], [tptr EXCEPT ![t] = NULL])

ThreadsDone == \A t \in Threads : tpc[t] = "idle" /\ tleft[t] = 0

\* Once the threads are done, the remaining handles are dropped.
FinalDrop(h) == ThreadsDone /\ Destroy(h)

NextAtomic ==
    \/ \E t \in Threads : TCopy(t)
    \/ \E t \in Threads : TInc(t)
    \/ \E t \in Threads : TDrop(t)
    \/ \E h \in Handles : FinalDrop(h)

SpecAtomic == InitAtomic /\ [][NextAtomic]_vars

\* --------------------------------------------------- the plain policy
\* SharedPtr.h built without SHPTR_THREADSAFE (ref_count_t = std::size_t):
\* ++cb_->ref_cnt and --cb_->ref_cnt are a read of the count and a later
\* write of the value computed from it, and another thread may run between
\* the two.  The scenario is that of the atomic policy.
InitPlain == InitAtomic /\ impl # "main"

\* The read half of ++ or --: through a freed block the read is undefined.
count_read(hp, c) == IF hp.freed[c] THEN {Crash(hp), hp} ELSE {hp}

\* An increment that reads the count again when it writes.
inc_write_atomic(hp, c, reg) == inc(hp, c)

\* The write half of ++cb_->ref_cnt: the value read earlier, plus one.
inc_write(hp, c, reg) ==
    LET h1 == [hp EXCEPT !.cnt[c] = reg + 1]
    IN  IF hp.freed[c] THEN {Crash(hp), h1} ELSE {h1}

\* The write half of --cb_->ref_cnt and the test that follows it:
\* if(--cb_->ref_cnt==0){ del(cb_->ptr); delete cb_; }
dec_write(hp, c, reg, del) ==
    LET h1 == [hp EXCEPT !.cnt[c] = reg - 1]
        h2 == IF reg - 1 = 0 THEN dec_zero(h1, c, del) ELSE h1
    IN  IF hp.freed[c] THEN {Crash(hp), h2} ELSE {h2}

\* The end of a thread's step under the plain policy.
PFinish(hp, tpc2, tleft2, tcb2, treg2) ==
    IF hp.crashed
    THEN Halt("thread", "crashes")
    ELSE /\ cnt' = hp.cnt
         /\ freed' = hp.freed
         /\ invoked' = hp.invoked
         /\ ran' = hp.ran
         /\ tpc' = tpc2
         /\ tleft' = tleft2
         /\ tcb' = tcb2
         /\ treg' = treg2
         /\ UNCHANGED <<impl, alive, cb, ptr, nblocks, bptr, bdel, handed, faults,
                        last, tptr, hb, asg>>

\* inc(): if(cb_) and the read of ++cb_->ref_cnt.
PIncRead(t) ==
    /\ ~Halted /\ tpc[t] = "copied"
    /\ IF tcb[t] = NULL
       THEN PFinish(Heap, [tpc EXCEPT ![t] = "holding"], tleft, tcb, treg)
       ELSE \E hp \in count_read(Heap, tcb[t]) :
              PFinish(hp, [tpc EXCEPT ![t] = "inc_read"], tleft, tcb,
                      [treg EXCEPT ![t] = cnt[tcb[t]]])

\* inc(): the write of ++cb_->ref_cnt.
PIncWrite(t) ==
    /\ ~Halted /\ tpc[t] = "inc_read"
    /\ \E hp \in inc_write(Heap, tcb[t], treg[t]) :
          PFinish(hp, [tpc EXCEPT ![t] = "holding"], tleft, tcb, treg)

\* dec(): if(!cb_) return; and the read of --cb_->ref_cnt.
PDecRead(t) ==
    /\ ~Halted /\ tpc[t] = "holding"
    /\ IF tcb[t] = NULL
       THEN PFinish(Heap, [tpc EXCEPT ![t] = "idle"], [tleft EXCEPT ![t] = @ - 1],
                    tcb, treg)
       ELSE \E hp \in count_read(Heap, tcb[t]) :
              PFinish(hp, [tpc EXCEPT ![t] = "dec_read"], tleft, tcb,
                      [treg EXCEPT ![t] = cnt[tcb[t]]])

\* dec(): the write of --cb_->ref_cnt, and the destruction when it wrote zero.
PDecWrite(t) ==
    /\ ~Halted /\ tpc[t] = "dec_read"
    /\ \E hp \in dec_write(Heap, tcb[t], treg[t], Strategy) :
          PFinish(hp, [tpc EXCEPT ![t] = "idle"], [tleft EXCEPT ![t] = @ - 1],
                  [tcb EXCEPT ![t] = NULL], treg)

NextPlain ==
    \/ \E t \in Threads : TCopy(t)
    \/ \E t \in Threads : PIncRead(t)
    \/ \E t \in Threads : PIncWrite(t)
    \/ \E t \in Threads : PDecRead(t)
    \/ \E t \in Threads : PDecWrite(t)
    \/ \E h \in Handles : FinalDrop(h)

SpecPlain == InitPlain /\ [][NextPlain]_vars

\* ------------------------------------- ordering of the atomic decrement
\* Every thread owns a handle on block 1, writes the resource through it and
\* drops it; the thread whose decrement reaches zero runs the strategy.

\* A decrement left without any ordering.
DecOrder_relaxed == "relaxed"

\* The memory order of the decrement:
\*   main.cpp     cb_->count.fetch_sub(1, std::memory_order_acq_rel)
\*   SharedPtr.h  --cb_->ref_cnt on std::atomic<size_t>: sequentially consistent
DecOrder == IF IsMain THEN "acq_rel" ELSE "seq_cst"

Releases(order) == order \in {"release", "acq_rel", "seq_cst"}
Acquires(order) == order \in {"acquire", "acq_rel", "seq_cst"}

\* The writes known to either of two views.
Join(v, w) == [u \in Threads |-> IF v[u] >= w[u] THEN v[u] ELSE w[u]]

InitOrder ==
    /\ impl \in Impls
    /\ alive = [h \in Handles |-> FALSE]
    /\ cb = [h \in Handles |-> NULL]
    /\ ptr = [h \in Handles |-> NULL]
    /\ nblocks = 1
    /\ bptr = [b \in BlockIds |-> IF b = 1 THEN 1 ELSE NULL]
    /\ \E d \in DeleterArgs : bdel = [b \in BlockIds |-> IF b = 1 THEN d ELSE "none"]
    /\ cnt = [b \in BlockIds |-> IF b = 1 THEN NumThreads ELSE 0]
    /\ freed = [b \in BlockIds |-> FALSE]
    /\ invoked = [r \in Res |-> 0]
    /\ ran = [b \in BlockIds |-> NotRun]
    /\ handed = {1}
    /\ faults = 0
    /\ last = Done("none", "ok")
    /\ tpc = [t \in Threads |-> "holding"]
    /\ tleft = [t \in Threads |-> MaxRounds]
    /\ tcb = [t \in Threads |-> 1]
    /\ tptr = [t \in Threads |-> IF IsMain THEN 1 ELSE NULL]
    /\ treg = [t \in Threads |-> 0]
    /\ hb = NoOrder
    /\ asg = NoAssign

\* An owner writes the resource through its handle (*p = v, p[i] = v).
OWrite(t) ==
    /\ ~Halted /\ tpc[t] = "holding" /\ tleft[t] > 0
    /\ hb' = [hb EXCEPT !.wrote[t] = @ + 1, !.seen[t][t] = @ + 1]
    /\ tleft' = [tleft EXCEPT ![t] = @ - 1]
    /\ UNCHANGED <<impl, alive, cb, ptr, nblocks, bptr, bdel, cnt, freed, invoked,
                   ran, handed, faults, last, tpc, tcb, tptr, treg, asg>>

\* The owner's destructor: release() / dec(strategy).  A releasing decrement
\* publishes what the thread has seen; an acquiring one sees what the earlier
\* decrements published (they all head a release sequence that every later
\* read-modify-write continues); the strategy runs with what this thread sees.
ODrop(t) ==
    /\ ~Halted /\ tpc[t] = "holding"
    /\ \E hp \in (IF IsMain THEN release(Heap, tptr[t], tcb[t])
                  ELSE dec(Heap, tcb[t], Strategy)) :
          IF hp.crashed
          THEN Halt("thread", "crashes")
          ELSE LET view == IF Acquires(DecOrder)
                           THEN Join(hb.seen[t], hb.pub) ELSE hb.seen[t]
                   pub2 == IF Releases(DecOrder)
                           THEN Join(hb.pub, hb.seen[t]) ELSE hb.pub
                   destroys == hp.freed[tcb[t]] /\ ~freed[tcb[t]]
               IN  /\ hb' = [hb EXCEPT !.seen[t] = view, !.pub = pub2,
                                       !.dview = IF destroys THEN view ELSE @]
                   /\ cnt' = hp.cnt
                   /\ freed' = hp.freed
                   /\ invoked' = hp.invoked
                   /\ ran' = hp.ran
                   /\ tpc' = [tpc EXCEPT ![t] = "idle"]
                   /\ tcb' = [tcb EXCEPT ![t] = NULL]
                   /\ tptr' = [tptr EXCEPT ![t] = NULL]
                   /\ UNCHANGED <<impl, alive, cb, ptr, nblocks, bptr, bdel, handed,
                                  faults, last, tleft, treg, asg>>

NextOrder ==
    \/ \E t \in Threads : OWrite(t)
    \/ \E t \in Threads : ODrop(t)

SpecOrder == InitOrder /\ [][NextOrder]_vars

\* ------------------------------------- assignment, statement by statement
\* operator= between two distinct handles d and r, one statement at a time:
\*   SharedPtr.h  assign / move_assign:  dec(strategy); cb_ = r.cb_; then
\*                inc() or r.cb_ = nullptr
\*   main.cpp     operator=(SharedPtr other): other is copy- or
\*                move-constructed from r; swap(other); ~other runs release()
\* asg.ocb and asg.optr are the fields of main.cpp's parameter other; asg.newc
\* and asg.newp are the fields r had when the assignment began; asg.released
\* is set once the count of d's previous block was decremented for d.
Quiet == asg.pc = "idle"

SConstruct(h, p, d) == Quiet /\ ConstructFromRaw(h, p, d)
SCopyConstruct(h, o) == Quiet /\ CopyConstruct(h, o)
SDestroy(h) == Quiet /\ Destroy(h)

\* The block whose reference the assignment gives up: cb_ of *this in
\* SharedPtr.h, cb_ of the parameter other in main.cpp.
RelBlock == IF IsMain THEN asg.ocb ELSE cb[asg.d]

\* The end of a statement of the assignment.
AFinish(hp, cb2, ptr2, asg2) ==
    IF hp.crashed
    THEN Halt("assign", "crashes")
    ELSE /\ cnt' = hp.cnt
         /\ freed' = hp.freed
         /\ invoked' = hp.invoked
         /\ ran' = hp.ran
         /\ cb' = cb2
         /\ ptr' = ptr2
         /\ asg' = asg2
         /\ UNCHANGED <<impl, alive, nblocks, bptr, bdel, handed, faults, last,
                        tvars, treg, hb>>

\* d = r or d = std::move(r) is entered.
ABegin(d, r, move) ==
    /\ ~Halted /\ Quiet /\ alive[d] /\ alive[r] /\ d # r
    /\ AFinish(Heap, cb, ptr,
               [pc |-> IF IsMain THEN "param" ELSE "dec", d |-> d, r |-> r,
                move |-> move, optr |-> NULL, ocb |-> NULL,
                newp |-> ptr[r], newc |-> cb[r], released |-> FALSE])

\* main.cpp: the parameter other is constructed from r, by the copy
\* constructor (fields copied, add_ref) or the move constructor (fields
\* taken, r nulled).
AParam ==
    /\ ~Halted /\ asg.pc = "param"
    /\ IF asg.move
       THEN AFinish(Heap, [cb EXCEPT ![asg.r] = NULL], [ptr EXCEPT ![asg.r] = NULL],
                    [asg EXCEPT !.pc = "swap", !.optr = ptr[asg.r], !.ocb = cb[asg.r]])
       ELSE \E hp \in add_ref(Heap, cb[asg.r]) :
              AFinish(hp, cb, ptr,
                      [asg EXCEPT !.pc = "swap", !.optr = ptr[asg.r], !.ocb = cb[asg.r]])

\* main.cpp: swap(other).
ASwap ==
    /\ ~Halted /\ asg.pc = "swap"
    /\ AFinish(Heap, [cb EXCEPT ![asg.d] = asg.ocb], [ptr EXCEPT ![asg.d] = asg.optr],
               [asg EXCEPT !.pc = "dec", !.optr = ptr[asg.d], !.ocb = cb[asg.d]])

\* The decrement: if(!cb_) return; then --cb_->ref_cnt == 0 in dec, or
\* fetch_sub(1) == 1 in release (run by ~other).
ADec ==
    /\ ~Halted /\ asg.pc = "dec"
    /\ LET c == RelBlock
           after == IF IsMain THEN NoAssign ELSE [asg EXCEPT !.pc = "take"]
       IN  IF c = NULL THEN AFinish(Heap, cb, ptr, after)
           ELSE IF c = WILD
           THEN \E hp \in {Crash(Heap), Heap} : AFinish(hp, cb, ptr, after)
           ELSE \E hp \in (IF freed[c] THEN {Crash(Heap)} ELSE {})
                          \cup {[Heap EXCEPT !.cnt[c] = @ - 1]} :
                  AFinish(hp, cb, ptr,
                          IF cnt[c] = 1
                          THEN [asg EXCEPT !.pc = "strategy", !.released = TRUE]
                          ELSE [after EXCEPT !.released = ~IsMain])

\* The count reached zero: del(cb_->ptr) in dec, destroy_fn(ptr) in destroy.
AStrategy ==
    /\ ~Halted /\ asg.pc = "strategy"
    /\ \E hp \in (IF IsMain THEN destroy_fn(Heap, RelBlock, asg.optr)
                  ELSE {Invoke(Heap, RelBlock, bptr[RelBlock], RelBlock, Strategy)}) :
          AFinish(hp, cb, ptr, [asg EXCEPT !.pc = "free"])

\* delete cb_ in dec, delete this in destroy; in main.cpp release then nulls
\* the fields of other and the assignment returns.
AFree ==
    /\ ~Halted /\ asg.pc = "free"
    /\ AFinish([Heap EXCEPT !.freed[RelBlock] = TRUE], cb, ptr,
               IF IsMain THEN NoAssign ELSE [asg EXCEPT !.pc = "take"])

\* SharedPtr.h: cb_ = r.cb_; and for move_assign r.cb_ = nullptr, which ends it.
ATake ==
    /\ ~Halted /\ asg.pc = "take"
    /\ IF asg.move
       THEN AFinish(Heap, [cb EXCEPT ![asg.d] = cb[asg.r], ![asg.r] = NULL], ptr,
                    NoAssign)
       ELSE AFinish(Heap, [cb EXCEPT ![asg.d] = cb[asg.r]], ptr,
                    [asg EXCEPT !.pc = "inc"])

\* SharedPtr.h: inc(), the last statement of assign.
AInc ==
    /\ ~Halted /\ asg.pc = "inc"
    /\ \E hp \in inc(Heap, cb[asg.d]) : AFinish(hp, cb, ptr, NoAssign)

NextSteps ==
    \/ \E h \in Handles, p \in {NULL} \cup Res, d \in Deleters \cup {"none"} :
          SConstruct(h, p, d)
    \/ \E h, o \in Handles : SCopyConstruct(h, o)
    \/ \E h \in Handles : SDestroy(h)
    \/ \E d, r \in Handles, move \in BOOLEAN : ABegin(d, r, move)
    \/ AParam
    \/ ASwap
    \/ ADec
    \/ AStrategy
    \/ AFree
    \/ ATake
    \/ AInc

SpecSteps == Init /\ [][NextSteps]_vars

\* ================================================================ claims
Blocks == 1..nblocks
\* The live handles whose block reference is b.
Holders(b) == {h \in Handles : alive[h] /\ cb[h] = b}
\* h refers to no block and no address / to an allocated block.
Empty(h) == cb[h] = NULL /\ get(h) = NULL
Bound(h) == cb[h] \in Blocks /\ ~freed[cb[h]]
\* Every raw resource was handed to a constructor or reset at most once.
HandedOnce == \A b1, b2 \in Blocks : b1 # b2 => bptr[b1] # bptr[b2]
\* Every count is the number of live holders and no handle holds a released block.
Consistent ==
    /\ \A b \in Blocks : ~freed[b] => cnt[b] = Cardinality(Holders(b))
    /\ \A h \in Handles : alive[h] => cb[h] = NULL \/ Bound(h)

\* C1: count invariant. When every raw resource was handed over at most once,
\* for every control block referenced by a live handle, use_count() read
\* through any handle bound to it equals the number of live handles whose
\* block reference is that block.
C1_CountInvariant ==
    HandedOnce =>
        \A h \in Handles :
            alive[h] /\ Bound(h) =>
                use_count(h) = Cardinality(Holders(cb[h]))

\* C2: exactly-once destruction. For every raw resource bound to a control
\* block the strategy is invoked at most once, not at all while a live handle
\* still refers to its block, and once when no live handle refers to it.
C2_ExactlyOnce ==
    HandedOnce =>
        \A b \in Blocks :
            /\ invoked[bptr[b]] <= 1
            /\ Holders(b) # {} => invoked[bptr[b]] = 0
            /\ Holders(b) = {} => invoked[bptr[b]] = 1

\* C3: a moved-from handle is Empty. After move-construction from s, or
\* move-assignment d = std::move(s) between distinct handles, s converts to
\* false, has use_count() 0 and get() null, and d holds the block and raw
\* address s held before.
C3_MovedFromEmpty ==
    [][\A d, s \in Handles :
          (MoveConstruct(d, s) \/ (d # s /\ MoveAssign(d, s))) /\ ~Halted' =>
              /\ ~bool(s)' /\ use_count(s)' = 0 /\ get(s)' = NULL
              /\ cb'[d] = cb[s] /\ get(d)' = get(s)]_vars

\* A move-assignment between distinct handles has just emptied a Bound source.
C3_Witness ==
    /\ last = Done("move_assign", "ok")
    /\ \E d, s \in Handles :
          d # s /\ alive[d] /\ alive[s] /\ Empty(s) /\ Bound(d) /\ use_count(d) = 1

\* C4: self-assignment and self-swap are identity operations. For a handle h
\* that is Empty or Bound, h = h, h = std::move(h) and swap(h, h) leave every
\* handle, every count and every block as they were, and destroy nothing.
C4_SelfIdentity ==
    [][\A h \in Handles :
          (CopyAssign(h, h) \/ MoveAssign(h, h) \/ Swap(h, h))
          /\ (cb[h] = NULL \/ Bound(h)) =>
              /\ ~Halted'
              /\ UNCHANGED <<alive, cb, ptr, nblocks, bptr, bdel, cnt, freed,
                             invoked, ran>>]_vars

\* A self-copy-assignment has just been made on the only owner of a block.
C4_Witness ==
    /\ last = Done("self_copy_assign", "ok")
    /\ \E h \in Handles : alive[h] /\ Bound(h) /\ use_count(h) = 1

\* C5: reset to a new resource. For h in any state and every other live
\* handle Empty or Bound to the block of the address it reports,
\* h.reset(new_raw), with new_raw owned by no block, drops the count of h's
\* previous block by one, destroys the old resource and frees its block
\* exactly once iff h was the last reference, and leaves h with get() ==
\* new_raw and use_count() == 1 on a fresh block; the other handles keep their
\* block and raw address.
C5_ResetNew ==
    [][\A h \in Handles, p \in Res, d \in Deleters \cup {"none"} :
          /\ ResetRaw(h, p, d) /\ p # get(h) /\ last'.res = "ok"
          /\ \A g \in Handles \ {h} :
                alive[g] => Empty(g) \/ (Bound(g) /\ get(g) = bptr[cb[g]])
          =>
              /\ get(h)' = p /\ use_count(h)' = 1 /\ cb'[h] = nblocks + 1
              /\ \A g \in Handles \ {h} : cb'[g] = cb[g] /\ get(g)' = get(g)
              /\ cb[h] \in Blocks =>
                    /\ cnt'[cb[h]] = cnt[cb[h]] - 1
                    /\ freed'[cb[h]] = (Holders(cb[h]) = {h})
                    /\ invoked'[bptr[cb[h]]] =
                          IF Holders(cb[h]) = {h} THEN 1 ELSE 0]_vars

\* C6: atomic-policy concurrency. Under every interleaving of the threads'
\* increments and decrements the block stays allocated and undestroyed while
\* a handle is alive, its count is the number of live handles plus private
\* copies (so use_count() is the starting count once the threads are done),
\* and when all handles are dropped the strategy has fired exactly once.
C6_AtomicCopyDrop ==
    ~Halted =>
        /\ invoked[1] <= 1
        /\ (\E h \in Handles : alive[h]) =>
              /\ ~freed[1] /\ invoked[1] = 0
              /\ cnt[1] = Cardinality({h \in Handles : alive[h]})
                          + Cardinality({t \in Threads : tpc[t] = "holding"})
        /\ ThreadsDone /\ alive[1] => use_count(1) = Cardinality({h \in Handles : alive[h]})
        /\ ThreadsDone /\ (\A h \in Handles : ~alive[h]) => freed[1] /\ invoked[1] = 1

\* Every thread has done its rounds, every handle is dropped, and the
\* resource was destroyed.
C6_Witness ==
    /\ ~Halted /\ ThreadsDone
    /\ \A h \in Handles : ~alive[h]
    /\ invoked[1] = 1

\* C7: construct-from-raw. From a non-null address: one new block, use_count()
\* 1 and get() the address. From a null address: no block, and an Empty handle.
C7_ConstructFromRaw ==
    [][\A h \in Handles, p \in {NULL} \cup Res, d \in Deleters \cup {"none"} :
          ConstructFromRaw(h, p, d) /\ last'.res = "ok" =>
              IF p # NULL
              THEN nblocks' = nblocks + 1 /\ use_count(h)' = 1 /\ get(h)' = p
              ELSE /\ nblocks' = nblocks
                   /\ get(h)' = NULL /\ use_count(h)' = 0 /\ ~bool(h)']_vars

\* C8: custom deleter. When a block of main.cpp is destroyed, the deleter that
\* is called is the one stored in that block, read from that block.
C8_StoredDeleterRuns ==
    IsMain => \A b \in Blocks : freed[b] => ran[b] = [self |-> b, del |-> bdel[b]]

\* C9: null dereference is reported. On a handle whose get() is null,
\* operator*, operator-> and operator[] end in a reported failure (they throw
\* or an assertion aborts); none returns normally.
C9_NullDerefReported ==
    [][\A h \in Handles :
          (Deref(h) \/ Arrow(h) \/ Index(h)) /\ get(h) = NULL =>
              last'.res \in {"throws", "aborts"}]_vars

\* C10: allocation failure leaves no partial state. When reset(raw) throws
\* from a state in which every count matches its holders, every count still
\* matches afterwards and no handle keeps a block it has released.
C10_AllocFailureClean ==
    [][\A h \in Handles, p \in Res, d \in Deleters \cup {"none"} :
          ResetRaw(h, p, d) /\ Consistent /\ last'.res = "throws" =>
              Consistent']_vars

\* Every other live handle is Empty, or Bound to the block of its address.
OthersSound(h) ==
    \A g \in Handles \ {h} :
        alive[g] => Empty(g) \/ (Bound(g) /\ get(g) = bptr[cb[g]])

\* C11: strategy matches variant. Whatever release path destroyed a block
\* (destructor, reset(), reset(raw), copy-assign, move-assign), a block of the
\* array variant was released with delete_array and a block of the scalar
\* variant with delete_object.
C11_StrategyMatchesVariant ==
    \A b \in Blocks :
        ran[b] # NotRun =>
            /\ impl = "array" => ran[b].del = "delete_array"
            /\ impl = "scalar" => ran[b].del = "delete_object"

\* A copy-assignment of the array variant has just destroyed a block.
C11_Witness ==
    /\ impl = "array" /\ last = Done("copy_assign", "ok")
    /\ \E b \in Blocks : freed[b] /\ ran[b].del = "delete_array"

\* C12: Empty/Bound observers agree. Every live handle is either Empty with
\* get() null, use_count() 0 and bool false, or Bound with get() non-null,
\* use_count() >= 1 and bool true; no handle is in a mixed state.
C12_ObserversAgree ==
    \A h \in Handles :
        alive[h] =>
            \/ cb[h] = NULL /\ get(h) = NULL /\ use_count(h) = 0 /\ ~bool(h)
            \/ Bound(h) /\ get(h) # NULL /\ use_count(h) >= 1 /\ bool(h)

\* C13: swap and move-construct never touch a reference count. swap(a, b)
\* exchanges the block references and raw addresses of a and b and changes no
\* count, no block and no other handle; move-construction changes no count,
\* and the new handle reports the use_count() the source reported.
C13_SwapMoveKeepCounts ==
    [][\A a, b \in Handles :
          /\ Swap(a, b) =>
                /\ ~Halted'
                /\ cb'[a] = cb[b] /\ cb'[b] = cb[a]
                /\ get(a)' = get(b) /\ get(b)' = get(a)
                /\ \A g \in Handles \ {a, b} : cb'[g] = cb[g] /\ ptr'[g] = ptr[g]
                /\ UNCHANGED <<alive, nblocks, cnt, freed, invoked, ran>>
          /\ MoveConstruct(a, b) =>
                /\ ~Halted'
                /\ use_count(a)' = use_count(b)
                /\ UNCHANGED <<nblocks, cnt, freed, invoked, ran>>]_vars

\* Two uniquely Bound handles have just exchanged their blocks.
C13_Witness ==
    /\ last = Done("swap", "ok")
    /\ alive[1] /\ alive[2] /\ cb[1] = 2 /\ cb[2] = 1
    /\ cnt[1] = 1 /\ cnt[2] = 1 /\ ~freed[1] /\ ~freed[2]

\* C14: reset to null. After h.reset() or h.reset(nullptr) on an Empty or
\* Bound handle, h is Empty (get() null, use_count() 0, bool false); if h was
\* Bound its block's count dropped by one and the block was destroyed iff h
\* was its last holder.
C14_ResetNull ==
    [][\A h \in Handles, d \in Deleters \cup {"none"} :
          /\ Reset(h) \/ ResetRaw(h, NULL, d)
          /\ Empty(h) \/ Bound(h)
          /\ OthersSound(h)
          /\ last'.res = "ok"
          =>
              /\ Empty(h)' /\ use_count(h)' = 0 /\ ~bool(h)'
              /\ Bound(h) =>
                    /\ cnt'[cb[h]] = cnt[cb[h]] - 1
                    /\ freed'[cb[h]] = (Holders(cb[h]) = {h})]_vars

\* C15: copy-construct. Copying a Bound handle s gives a handle c with the
\* same block and get(), both reporting the previous use_count() plus one,
\* and leaves s and every other count alone; copying an Empty handle gives an
\* Empty handle and changes no count. No block is allocated.
C15_CopyConstruct ==
    [][\A c, s \in Handles :
          CopyConstruct(c, s) /\ (Empty(s) \/ Bound(s)) =>
              /\ ~Halted' /\ alive'[c]
              /\ cb'[c] = cb[s] /\ get(c)' = get(s)
              /\ cb'[s] = cb[s] /\ get(s)' = get(s)
              /\ nblocks' = nblocks
              /\ UNCHANGED <<freed, invoked, ran>>
              /\ IF Bound(s)
                 THEN /\ use_count(c)' = use_count(s) + 1
                      /\ use_count(s)' = use_count(s) + 1
                      /\ \A b \in BlockIds \ {cb[s]} : cnt'[b] = cnt[b]
                 ELSE cnt' = cnt /\ Empty(c)']_vars

\* A copy of a uniquely Bound handle has just been made.
C15_Witness ==
    /\ last = Done("copy_construct", "ok")
    /\ alive[1] /\ alive[2] /\ cb[1] = cb[2] /\ Bound(1) /\ use_count(2) = 2

\* C16: assignment ordering. While a copy- or move-assignment between
\* distinct handles is in progress, once the previous block's count has been
\* decremented for the assigned-to handle (and while its strategy runs and
\* the block is freed), the handle already holds its new state: the block and
\* raw address of the right-hand side.
C16_ReleaseAfterBuild ==
    ~Halted /\ ~Quiet /\ asg.released =>
        /\ cb[asg.d] = asg.newc
        /\ IsMain => ptr[asg.d] = asg.newp

\* C17: no dangling block. When every raw resource was handed over at most
\* once, a freed block had its strategy run, on a resource destroyed once,
\* and no live handle refers to a freed block or reports the address of a
\* destroyed resource.
C17_NoDangling ==
    HandedOnce =>
        /\ \A b \in Blocks :
              freed[b] => ran[b] # NotRun /\ invoked[bptr[b]] = 1
        /\ \A h \in Handles :
              alive[h] =>
                  /\ cb[h] \in Blocks => ~freed[cb[h]]
                  /\ get(h) \in Res => invoked[get(h)] = 0

\* C18: reset with the handle's own raw address. For a Bound handle h,
\* h.reset(h.get()), when it returns, has allocated no second block for the
\* resource, destroyed nothing, and left h Bound with get() unchanged.
C18_ResetOwn ==
    [][\A h \in Handles, p \in Res, d \in Deleters \cup {"none"} :
          /\ ResetRaw(h, p, d)
          /\ Bound(h) /\ p = get(h) /\ bptr[cb[h]] = p
          /\ OthersSound(h)
          /\ last'.res = "ok"
          =>
              /\ nblocks' = nblocks
              /\ UNCHANGED <<cnt, freed, invoked, ran>>
              /\ get(h)' = p /\ Bound(h)']_vars

\* The handles that count on block 1: the live shared handles and the
\* private copies whose constructor has finished and whose destructor has not.
Owners ==
    Cardinality({h \in Handles : alive[h] /\ cb[h] = 1})
    + Cardinality({t \in Threads : tpc[t] \in {"holding", "dec_read"}})

\* C19: the plain policy loses updates. When a thread writes the count it
\* computed from a read that another thread's write has since overtaken,
\* and the count matched the number of live handles, the count no longer
\* matches it afterwards: the other thread's update is lost.
C19_PlainLosesUpdate ==
    [][\A t \in Threads :
          /\ (PIncWrite(t) \/ PDecWrite(t))
          /\ treg[t] # cnt[tcb[t]] /\ cnt[tcb[t]] = Owners /\ ~freed[tcb[t]]
          /\ ~Halted'
          => cnt'[tcb[t]] # Owners']_vars

\* The block was destroyed while the shared handle is still Bound to it.
C19_Witness ==
    /\ ~Halted /\ impl # "main"
    /\ alive[1] /\ cb[1] = 1 /\ freed[1] /\ invoked[1] >= 1

\* C20: release/acquire on decrement. With the memory order the decrements
\* carry (every one releases, the one that reaches zero acquires), when the
\* strategy has run, every write any former owner made to the resource
\* before dropping its reference happened before the strategy call.
C20_DestructionSeesWrites ==
    ~Halted /\ freed[1] => \A u \in Threads : hb.dview[u] = hb.wrote[u]

\* Every owner wrote the resource, all dropped, and the strategy ran after
\* all those writes.
C20_Witness ==
    /\ ~Halted /\ freed[1] /\ invoked[1] = 1
    /\ \A u \in Threads : hb.wrote[u] = MaxRounds /\ hb.dview[u] = MaxRounds

====
